---- MODULE Spec2Model ----
(***************************************************************************)
(* Model of the three S3 upload examples:                                  *)
(*   upload-file-multipart.rs        upload_multipart          (prog "seq")*)
(*   upload-file-multipart-tasks.rs  upload_multipart_parallel (prog "par")*)
(*   upload-file-chunk.rs            main / upload_chunk     (prog "chunk")*)
(* The object store is the environment: every call it receives is logged   *)
(* in `calls`, and it answers each call with an outcome of its choosing.   *)
(***************************************************************************)
EXTENDS Integers, Sequences, FiniteSets, TLC

\* ---- bounds ----
MaxLen == 5        \* longest source file, in bytes
MaxParts == 3      \* largest <number of parts> argument
MaxWorkers == 2    \* largest <number of workers> argument

\* the byte values a source is made of
Bytes == {0, 1}
Sources == UNION { [1 .. L -> Bytes] : L \in 0 .. MaxLen }

\* absent e_tag (Option::None); a present e_tag of part p is p
NoTag == 0
\* part field of a result that is not about a part
NoPart == 0

VARIABLES
    prog,            \* which binary runs: "seq", "par" or "chunk"
    src,             \* content of <input file>
    num_parts,       \* <number of parts>
    num_threads,     \* <number of workers> (worker_threads of the runtime)
    start_offset,    \* upload-file-chunk: <start offset>
    chunk_size,      \* upload-file-chunk: the <chunk size> argument
    pc,              \* position of the orchestrator
    result,          \* what the function returned: [kind, part]
    initiate,        \* state of the initiate-upload store call
    uid,             \* TRUE once an upload id is held
    i,               \* loop counter of the `for i in 0..num_parts` loops
    handles,         \* par: Vec of JoinHandles, each with its captured arguments
    task,            \* par: state of the spawned task of each part
    h,               \* par: number of handles already awaited
    upload,          \* state of the upload-part store call of each part
    completed_parts, \* Vec<CompletedPart>
    calls,           \* log of the store calls issued, in issue order
    stored,          \* store side: body received for each part
    committed,       \* store side: an object has been made visible
    completion,      \* state of the complete-upload store call
    object           \* store side: content of the visible object

vars == << prog, src, num_parts, num_threads, start_offset, chunk_size, pc,
           result, initiate, uid, i, handles, task, h, upload, completed_parts, calls,
           stored, committed, completion, object >>

inputs == << prog, src, num_parts, num_threads, start_offset, chunk_size >>

len == Len(src)

\* ---- pure helpers ----

Min(a, b) == IF a < b THEN a ELSE b

\* file.seek(SeekFrom::Start(offset)) followed by file.take(size): the bytes
\* the bounded reader yields; a seek past the end of file yields nothing.
ReadRange(s, offset, size) == SubSeq(s, offset + 1, Min(offset + size, Len(s)))

ChunkSizeOf(l, n) == l \div n

LastChunkSizeOf(l, n) == ChunkSizeOf(l, n) + (l % n)

\* let size = if i != (num_parts - 1) { chunk_size } else { last_chunk_size };
PartSizeFirstLong(k, l, n) == IF k # 0 THEN ChunkSizeOf(l, n) ELSE LastChunkSizeOf(l, n)

PartSize(k, l, n) == IF k # n - 1 THEN ChunkSizeOf(l, n) ELSE LastChunkSizeOf(l, n)

\* upload_multipart: SeekFrom::Start((i * len / num_parts) as u64)
SeqOffset(k, l, n) == (k * l) \div n

\* upload_multipart_parallel: let offset = (i * chunk_size) as u64;
ParOffset(k, l, n) == k * ChunkSizeOf(l, n)

\* part_number((i + 1) as i32)
PartNumber(k) == k + 1

\* CompletedPart::builder().set_e_tag(up.e_tag).part_number(n).build()
CompletedPart(e_tag, n) == [part_number |-> n, e_tag |-> e_tag]

\* completed_parts.push(cp)
PushFront(v, cp) == << cp >> \o v

Push(v, cp) == Append(v, cp)

\* e_tag field of the store's UploadPartOutput for an accepted part
ETagOf(r, n) == IF r = "ok" THEN n ELSE NoTag

\* u.upload_id().ok_or(Error::NoSuchUpload(..."No upload ID"...))?
HasUploadIdUnchecked(r) == TRUE

HasUploadId(r) == r = "ok"

\* the `?` after a store call's .await: an Err outcome is returned to the caller
IsErrIgnored(r) == FALSE

IsErr(r) == r = "err"

\* one entry of the call log
Call(op, part, offset, size, body, parts) ==
    [op |-> op, part_number |-> part, offset |-> offset,
     content_length |-> size, body |-> body, parts |-> parts]

\* the store calls issued on the way out when a part fails: `?` returns at
\* once, upload_multipart.rs:135 and upload-file-multipart-tasks.rs:161
ErrorEdgeCallsAbort == << Call("abort", NoPart, 0, 0, << >>, << >>) >>

ErrorEdgeCalls == << >>

RECURSIVE Assemble(_, _)
\* store side of complete-upload: the parts' bodies in the order listed
Assemble(parts, st) ==
    IF parts = << >> THEN << >>
    ELSE st[Head(parts).part_number] \o Assemble(Tail(parts), st)

\* every failure returned as one generic error that names no part
ReturnGeneric(kind, part) ==
    /\ pc' = "returned"
    /\ result' = [kind |-> IF kind = "Ok" THEN "Ok" ELSE "Unhandled", part |-> NoPart]

\* what the function hands back to its caller: Ok(()), or through `?` the
\* error of the call that failed (part is the part it was raised for)
Return(kind, part) ==
    /\ pc' = "returned"
    /\ result' = [kind |-> kind, part |-> part]

NoResult == [kind |-> "none", part |-> NoPart]

\* ---- initial state ----

Init ==
    /\ prog \in {"seq", "par", "chunk"}
    /\ src \in Sources
    /\ num_parts \in 0 .. MaxParts
    /\ num_threads \in 1 .. MaxWorkers
    /\ start_offset \in 0 .. MaxLen
    /\ chunk_size \in 0 .. MaxLen
    /\ prog # "par" => num_threads = 1
    /\ prog = "chunk" => num_parts = 1
    /\ prog # "chunk" => start_offset = 0 /\ chunk_size = 0
    /\ pc = "start"
    /\ result = NoResult
    /\ initiate = "none"
    /\ uid = FALSE
    /\ i = 0
    /\ handles = << >>
    /\ task = [p \in 1 .. MaxParts |-> "none"]
    /\ h = 0
    /\ upload = [p \in 1 .. MaxParts |-> "none"]
    /\ completed_parts = << >>
    /\ calls = << >>
    /\ stored = [p \in 1 .. MaxParts |-> << >>]
    /\ committed = FALSE
    /\ completion = "none"
    /\ object = << >>

\* ---- the object store (environment) ----

\* outcomes of a store call: accepted with its identifying field, accepted
\* without it (upload_id / e_tag is an Option), or failed
Resp == {"ok", "noid", "err"}

\* outcomes of a file-system operation (metadata, open, try_clone, seek)
IoResp == {"ok", "err"}

\* ---- upload_multipart and upload_multipart_parallel: common prefix ----

\* metadata(file_name)?, File::open(file_name)? (seq only), len / num_parts,
\* then create_multipart_upload().send()
Start ==
    /\ pc = "start"
    /\ prog \in {"seq", "par"}
    /\ \E io \in IoResp :
          IF io = "err"
          THEN /\ Return("Unhandled", NoPart)
               /\ UNCHANGED calls
          ELSE IF num_parts = 0
          THEN \* attempt to divide by zero
               /\ pc' = "panic"
               /\ UNCHANGED << result, calls >>
          ELSE /\ pc' = "initiating"
               /\ calls' = Append(calls, Call("initiate", NoPart, 0, 0, << >>, << >>))
               /\ UNCHANGED result
    /\ initiate' = IF pc' = "initiating" THEN "inflight" ELSE initiate
    /\ UNCHANGED << inputs, uid, i, handles, task, h, upload, completed_parts,
                    stored, committed, object, completion >>

\* .await? on create_multipart_upload, then upload_id().ok_or(NoSuchUpload)?
InitiateRespond ==
    /\ pc = "initiating"
    /\ \E r \in Resp :
          /\ initiate' = r
          /\ IF IsErr(r)
             THEN /\ Return("StoreError", NoPart)
                  /\ UNCHANGED uid
             ELSE IF ~HasUploadId(r)
             THEN /\ Return("NoSuchUpload", NoPart)
                  /\ UNCHANGED uid
             ELSE /\ pc' = IF prog = "seq" THEN "parts" ELSE "spawning"
                  /\ uid' = TRUE
                  /\ UNCHANGED result
    /\ UNCHANGED << inputs, i, handles, task, h, upload, completed_parts, calls,
                    stored, committed, object, completion >>

\* ---- upload_multipart: the loop over the parts ----

\* the loop of upload_multipart with its iterations overlapped: the seek of
\* the next part is done while the current part's call is still in flight
SeqPartSendOverlapped ==
    /\ prog = "seq"
    /\ \/ pc = "parts" /\ i < num_parts /\ upload[PartNumber(i)] = "none"
       \/ pc = "uploading" /\ i + 1 < num_parts /\ upload[PartNumber(i + 1)] = "none"
    /\ LET k == IF pc = "parts" THEN i ELSE i + 1
           size == PartSize(k, len, num_parts)
           offset == SeqOffset(k, len, num_parts)
       IN /\ pc' = "uploading"
          /\ upload' = [upload EXCEPT ![PartNumber(k)] = "inflight"]
          /\ calls' = Append(calls,
                Call("upload_part", PartNumber(k), offset, size,
                     ReadRange(src, offset, size), << >>))
    /\ UNCHANGED << inputs, result, initiate, uid, i, handles, task, h,
                    completed_parts, stored, committed, object, completion >>

\* one iteration up to upload_part().send(): try_clone, seek, take, send
SeqPartSend ==
    /\ pc = "parts"
    /\ prog = "seq"
    /\ i < num_parts
    /\ \E io \in IoResp :
          IF io = "err"
          THEN /\ Return("Unhandled", PartNumber(i))
               /\ UNCHANGED << upload, calls >>
          ELSE LET size == PartSize(i, len, num_parts)
                   offset == SeqOffset(i, len, num_parts)
               IN /\ pc' = "uploading"
                  /\ upload' = [upload EXCEPT ![PartNumber(i)] = "inflight"]
                  /\ calls' = Append(calls,
                        Call("upload_part", PartNumber(i), offset, size,
                             ReadRange(src, offset, size), << >>))
                  /\ UNCHANGED result
    /\ UNCHANGED << inputs, initiate, uid, i, handles, task, h, completed_parts, stored,
                    committed, object, completion >>

\* .await? on upload_part, CompletedPart built from up.e_tag, push
SeqPartRespond ==
    /\ pc = "uploading"
    /\ prog = "seq"
    /\ upload[PartNumber(i)] = "inflight"
    /\ \E r \in Resp :
          /\ upload' = [upload EXCEPT ![PartNumber(i)] = r]
          /\ IF IsErr(r)
             THEN /\ Return("StoreError", PartNumber(i))
                  /\ calls' = calls \o ErrorEdgeCalls
                  /\ UNCHANGED << i, completed_parts, stored >>
             ELSE /\ pc' = "parts"
                  /\ stored' = [stored EXCEPT ![PartNumber(i)] = calls[Len(calls)].body]
                  /\ completed_parts' =
                        Push(completed_parts, CompletedPart(ETagOf(r, PartNumber(i)), PartNumber(i)))
                  /\ i' = i + 1
                  /\ UNCHANGED << result, calls >>
    /\ UNCHANGED << inputs, initiate, uid, handles, task, h, committed, object, completion >>

\* ---- upload_multipart_parallel: spawning one task per part ----

\* the tasks that occupy one of the runtime's worker threads
OnWorkerUncounted == { }

OnWorker == { p \in 1 .. MaxParts : task[p] = "running" }

\* one iteration of the first loop: capture part_id, size, offset and
\* tokio::spawn the task; the handle is pushed
SpawnTask ==
    /\ pc = "spawning"
    /\ i < num_parts
    /\ handles' = Append(handles,
          [part_id |-> PartNumber(i), offset |-> ParOffset(i, len, num_parts),
           size |-> PartSize(i, len, num_parts)])
    /\ task' = [task EXCEPT ![PartNumber(i)] = "queued"]
    /\ i' = i + 1
    /\ UNCHANGED << inputs, pc, result, initiate, uid, h, upload, completed_parts, calls,
                    stored, committed, object, completion >>

\* the first loop ends, `for h in handles` begins
SpawnDone ==
    /\ pc = "spawning"
    /\ i = num_parts
    /\ pc' = "parts"
    /\ UNCHANGED << inputs, result, initiate, uid, i, handles, task, h, upload,
                    completed_parts, calls, stored, committed, object, completion >>

\* a worker thread of the runtime picks the task up
TaskStart(p) ==
    /\ task[p] = "queued"
    /\ Cardinality(OnWorker) < num_threads
    /\ task' = [task EXCEPT ![p] = "running"]
    /\ UNCHANGED << inputs, pc, result, initiate, uid, i, handles, h, upload,
                    completed_parts, calls, stored, committed, object, completion >>

\* task::block_in_place(move || upload_part(...)): the worker hands its
\* place in the pool over and runs the closure
TaskBlockInPlace(p) ==
    /\ task[p] = "running"
    /\ task' = [task EXCEPT ![p] = "blocking"]
    /\ UNCHANGED << inputs, pc, result, initiate, uid, i, handles, h, upload,
                    completed_parts, calls, stored, committed, object, completion >>

\* what the closure does when it calls the async fn upload_part: it builds
\* the future ("future") and runs none of its body
CallUploadPart(p) == "future"

\* the task ends: its output is the value of the closure, or it panicked
TaskFinish(p) ==
    /\ task[p] = "blocking"
    /\ \E out \in {CallUploadPart(p), "panicked"} :
          task' = [task EXCEPT ![p] = out]
    /\ UNCHANGED << inputs, pc, result, initiate, uid, i, handles, h, upload,
                    completed_parts, calls, stored, committed, object, completion >>

\* ---- upload_multipart_parallel: the loop over the handles ----

\* h.await.map_err(..)? then the first poll of the returned upload_part
\* future: File::open, seek, take, upload_part().send()
ParPartSend ==
    /\ pc = "parts"
    /\ prog = "par"
    /\ h < Len(handles)
    /\ LET a == handles[h + 1] IN
       /\ task[a.part_id] \in {"future", "panicked"}
       /\ \E io \in IoResp :
             IF task[a.part_id] = "panicked" \/ io = "err"
             THEN /\ Return("Unhandled", a.part_id)
                  /\ UNCHANGED << upload, calls >>
             ELSE /\ pc' = "uploading"
                  /\ upload' = [upload EXCEPT ![a.part_id] = "inflight"]
                  /\ calls' = Append(calls,
                        Call("upload_part", a.part_id, a.offset, a.size,
                             ReadRange(src, a.offset, a.size), << >>))
                  /\ UNCHANGED result
    /\ UNCHANGED << inputs, initiate, uid, i, handles, task, h, completed_parts, stored,
                    committed, object, completion >>

\* upload_part's .await? on the store call and Ok(cp), then the caller's
\* .await? and completed_parts.push(p)
ParPartRespond ==
    /\ pc = "uploading"
    /\ prog = "par"
    /\ LET a == handles[h + 1] IN
       /\ upload[a.part_id] = "inflight"
       /\ \E r \in Resp :
             /\ upload' = [upload EXCEPT ![a.part_id] = r]
             /\ IF IsErr(r)
                THEN /\ Return("StoreError", a.part_id)
                     /\ calls' = calls \o ErrorEdgeCalls
                     /\ UNCHANGED << h, completed_parts, stored >>
                ELSE /\ pc' = "parts"
                     /\ stored' = [stored EXCEPT ![a.part_id] = calls[Len(calls)].body]
                     /\ completed_parts' =
                           Push(completed_parts, CompletedPart(ETagOf(r, a.part_id), a.part_id))
                     /\ h' = h + 1
                     /\ UNCHANGED << result, calls >>
    /\ UNCHANGED << inputs, initiate, uid, i, handles, task, committed, object, completion >>

\* ---- both orchestrators: complete_multipart_upload ----

\* the loop over the parts (seq) or over the handles (par) has ended
PartsDone ==
    IF prog = "seq" THEN i = num_parts ELSE h = Len(handles)

\* CompletedMultipartUpload built from completed_parts, then .send()
SendComplete ==
    /\ pc = "parts"
    /\ prog \in {"seq", "par"}
    /\ PartsDone
    /\ pc' = "completing"
    /\ completion' = "inflight"
    /\ calls' = Append(calls, Call("complete", NoPart, 0, 0, << >>, completed_parts))
    /\ UNCHANGED << inputs, result, initiate, uid, i, handles, task, h, upload,
                    completed_parts, stored, committed, object >>

\* .await? on complete_multipart_upload; the etag is only printed
CompleteRespond ==
    /\ pc = "completing"
    /\ \E r \in Resp :
          /\ completion' = r
          /\ IF IsErr(r)
             THEN /\ Return("StoreError", NoPart)
                  /\ UNCHANGED << committed, object >>
             ELSE /\ Return("Ok", NoPart)
                  /\ committed' = TRUE
                  /\ object' = Assemble(calls[Len(calls)].parts, stored)
    /\ UNCHANGED << inputs, initiate, uid, i, handles, task, h, upload, completed_parts,
                    calls, stored >>

\* ---- upload-file-chunk ----

\* main: a <chunk size> of 0 stands for the length of the file; then
\* upload_chunk: open, seek, take, put_object().send()
ChunkSend ==
    /\ pc = "start"
    /\ prog = "chunk"
    /\ \E io \in IoResp :
          IF io = "err"
          THEN /\ Return("Unhandled", NoPart)
               /\ UNCHANGED calls
          ELSE LET size == IF chunk_size = 0 THEN len ELSE chunk_size IN
               /\ pc' = "putting"
               /\ calls' = Append(calls,
                     Call("put_object", NoPart, start_offset, size,
                          ReadRange(src, start_offset, size), << >>))
               /\ UNCHANGED result
    /\ UNCHANGED << inputs, initiate, uid, i,
                    handles, task, h, upload, completed_parts, stored,
                    committed, object, completion >>

\* .await? on put_object; the etag is only printed
ChunkRespond ==
    /\ pc = "putting"
    /\ \E r \in Resp :
          IF IsErr(r)
          THEN /\ Return("StoreError", NoPart)
               /\ UNCHANGED << committed, object >>
          ELSE /\ Return("Ok", NoPart)
               /\ committed' = TRUE
               /\ object' = calls[Len(calls)].body
    /\ UNCHANGED << inputs, initiate, uid, i, handles, task, h, upload, completed_parts,
                    calls, stored, completion >>

\* ---- specification ----

Next ==
    \/ Start
    \/ InitiateRespond
    \/ SeqPartSend
    \/ SeqPartRespond
    \/ SpawnTask
    \/ SpawnDone
    \/ \E p \in 1 .. MaxParts : TaskStart(p)
    \/ \E p \in 1 .. MaxParts : TaskBlockInPlace(p)
    \/ \E p \in 1 .. MaxParts : TaskFinish(p)
    \/ ParPartSend
    \/ ParPartRespond
    \/ SendComplete
    \/ CompleteRespond
    \/ ChunkSend
    \/ ChunkRespond

Spec == Init /\ [][Next]_vars

\* ---- what the claims are stated over ----

RECURSIVE CountOp(_, _)
\* number of calls of operation op in the call log c
CountOp(c, op) ==
    IF c = << >> THEN 0
    ELSE (IF Head(c).op = op THEN 1 ELSE 0) + CountOp(Tail(c), op)

IsUploadPart(c) == c.op = "upload_part"

\* the upload-part calls issued so far, in issue order
UploadCalls == SelectSeq(calls, IsUploadPart)

Multipart == prog \in {"seq", "par"}

\* a part whose upload-part call the store has accepted
Accepted(p) == upload[p] \in {"ok", "noid"}

\* the precondition of the partition claims
ValidPartition == len > 0 /\ 1 <= num_parts /\ num_parts <= len

\* ---- C1 ----

\* C1: complete-upload is never called in a run in which an upload-part call
\* has failed; when it has been called, every one of the P parts has
\* returned success (in upload_multipart and in upload_multipart_parallel).
C1_CompleteOnlyAfterAllPartsSucceeded ==
    (Multipart /\ CountOp(calls, "complete") > 0) =>
        /\ \A p \in 1 .. MaxParts : upload[p] # "err"
        /\ \A p \in 1 .. num_parts : Accepted(p)

\* a run of the task-based orchestrator in which part 1 succeeded, part 2
\* failed and the function has returned
C1_Witness ==
    /\ ValidPartition
    /\ prog = "par"
    /\ num_parts = 3
    /\ upload[1] = "ok"
    /\ upload[2] = "err"
    /\ pc = "returned"

\* ---- C2 ----

\* C2 as stated: when a part upload has failed and the orchestrator has
\* returned, abort-upload has been called exactly once.
C2_AbortOnceOnPartFailure ==
    (Multipart /\ ValidPartition /\ pc = "returned"
               /\ \E p \in 1 .. MaxParts : upload[p] = "err") =>
        CountOp(calls, "abort") = 1

\* C2 amended: when a part upload fails the orchestrator returns that failure
\* at once, calling neither abort-upload nor complete-upload: the session is
\* left open.
C2_NoAbortOnPartFailure ==
    \A p \in 1 .. MaxParts :
        (Multipart /\ upload[p] = "err") =>
            /\ pc = "returned"
            /\ result = [kind |-> "StoreError", part |-> p]
            /\ CountOp(calls, "abort") = 0
            /\ CountOp(calls, "complete") = 0

\* the sequential orchestrator returned after part 3 of 3 failed
C2_Witness ==
    /\ ValidPartition
    /\ prog = "seq"
    /\ num_parts = 3
    /\ upload[3] = "err"
    /\ pc = "returned"
    /\ uid

\* ---- C3 ----

\* C3: the Completed Part List of every complete-upload call holds exactly
\* one token per part number 1..P, in strictly ascending part_number order.
C3_CompletedPartListAscending ==
    \A k \in 1 .. Len(calls) :
        calls[k].op = "complete" =>
            /\ Len(calls[k].parts) = num_parts
            /\ \A j \in 1 .. Len(calls[k].parts) : calls[k].parts[j].part_number = j

\* complete-upload was called by the task-based orchestrator for 3 parts on
\* 2 workers
C3_Witness ==
    /\ ValidPartition
    /\ prog = "par"
    /\ num_parts = 3
    /\ num_threads = 2
    /\ CountOp(calls, "complete") = 1
    /\ Len(calls[Len(calls)].parts) = 3

\* ---- C4 ----

\* C4: for L > 0 and 1 <= P <= L the ranges used by the upload-part calls are
\* numbered 1, 2, ... in issue order, part 1 starts at offset 0, each later
\* part starts where the previous one ended, and part P ends at L.
C4_RangesContiguous ==
    (Multipart /\ ValidPartition) =>
        \A j \in 1 .. Len(UploadCalls) :
            /\ UploadCalls[j].part_number = j
            /\ UploadCalls[j].offset =
                  IF j = 1 THEN 0
                  ELSE UploadCalls[j - 1].offset + UploadCalls[j - 1].content_length
            /\ j = num_parts =>
                  UploadCalls[j].offset + UploadCalls[j].content_length = len

\* ---- C5 ----

\* what upload_chunk stores when main is given <start offset> 0 and
\* <chunk size> 0: the single-shot upload of the whole source
SingleShotObject(s) == ReadRange(s, 0, Len(s))

\* C5: for 1 <= k <= L, once every part upload and complete-upload have
\* succeeded, the remote object is byte-identical to the source, which is
\* what the single-shot upload of the whole source stores.
C5_RoundTrip ==
    (Multipart /\ ValidPartition /\ committed) =>
        /\ object = src
        /\ object = SingleShotObject(src)

\* ---- C6 ----

\* C6: with part_count = 0 or part_count > total_length the orchestrator
\* fails with an InvalidPartition result before any store call is issued; no
\* zero-length part is uploaded.
C6_InvalidPartitionRejected ==
    (Multipart /\ (num_parts = 0 \/ num_parts > len)) =>
        /\ pc # "panic"
        /\ calls = << >>
        /\ (pc = "returned" /\ result.kind # "Unhandled") =>
              result.kind = "InvalidPartition"

\* ---- C7 ----

\* C7: an upload-part call that the store accepts without an etag is a
\* MissingTag failure: the orchestrator returns it, no Completion Token is
\* produced for the part, and no complete-upload call carries a token whose
\* etag is absent.
C7_MissingTagIsFailure ==
    (Multipart /\ ValidPartition) =>
        /\ \A p \in 1 .. MaxParts :
              upload[p] = "noid" =>
                  /\ pc = "returned"
                  /\ result.kind = "MissingTag"
                  /\ \A k \in 1 .. Len(completed_parts) :
                        completed_parts[k].part_number # p
        /\ \A k \in 1 .. Len(calls) :
              \A j \in 1 .. Len(calls[k].parts) :
                  calls[k].parts[j].e_tag # NoTag

\* ---- C8 ----

\* C8 as stated: once the orchestrator of a created session has returned
\* (here: with Ok or with a failure of the store), exactly one call among
\* complete-upload and abort-upload has been issued.
C8_FinalizedExactlyOnce ==
    (Multipart /\ ValidPartition /\ uid /\ pc = "returned"
               /\ result.kind \in {"Ok", "StoreError"}) =>
        CountOp(calls, "complete") + CountOp(calls, "abort") = 1

\* C8 amended: a created session is finalized at most once and never
\* aborted: when the orchestrator returns it has issued exactly one
\* complete-upload call if every part upload was accepted, and neither call
\* otherwise.
C8_FinalizedAtMostOnce ==
    (Multipart /\ uid) =>
        /\ CountOp(calls, "abort") = 0
        /\ CountOp(calls, "complete") <= 1
        /\ pc = "returned" =>
              CountOp(calls, "complete") =
                  IF \A p \in 1 .. num_parts : Accepted(p) THEN 1 ELSE 0

\* the sequential orchestrator returned Ok for a session of 2 parts
C8_Witness ==
    /\ ValidPartition
    /\ prog = "seq"
    /\ uid
    /\ num_parts = 2
    /\ pc = "returned"
    /\ result.kind = "Ok"
    /\ CountOp(calls, "complete") = 1

\* ---- C9 ----

\* C9: when initiate-upload succeeds without an upload_id the orchestrator
\* returns the "No upload ID" failure, has issued no store call but the
\* initiate, and has spawned no task.
C9_NoUploadId ==
    (Multipart /\ initiate = "noid") =>
        /\ pc = "returned"
        /\ result = [kind |-> "NoSuchUpload", part |-> NoPart]
        /\ Len(calls) = 1
        /\ calls[1].op = "initiate"
        /\ handles = << >>
        /\ \A p \in 1 .. MaxParts : task[p] = "none" /\ upload[p] = "none"

\* the task-based orchestrator, asked for 3 parts, got no upload id
C9_Witness ==
    /\ ValidPartition
    /\ prog = "par"
    /\ num_parts = 3
    /\ initiate = "noid"
    /\ pc = "returned"

\* ---- C10 ----

\* the upload-part store call of part q is started
StartUploadOf(q) == ParPartSend /\ upload'[q] = "inflight"

\* C10: with W >= 2 and P >= 2 part uploads run in parallel: while the
\* upload-part call of a part is in flight, the call of a higher part whose
\* task has run can be started, so that two calls are in flight at once.
C10_UploadsRunInParallel ==
    (prog = "par" /\ num_threads >= 2 /\ num_parts >= 2 /\ ValidPartition) =>
        \A p, q \in 1 .. MaxParts :
            (p < q /\ upload[p] = "inflight" /\ task[q] = "future"
                   /\ upload[q] = "none") =>
                ENABLED StartUploadOf(q)

\* ---- C11 ----

\* the spawned tasks that have not ended yet
AliveTasks == { p \in 1 .. MaxParts : task[p] \in {"queued", "running", "blocking"} }

\* C11 as stated: at no time are more than W spawned part-upload tasks alive.
C11_AtMostWTasksAlive ==
    (prog = "par" /\ ValidPartition) => Cardinality(AliveTasks) <= num_threads

\* C11 amended: W caps only the tasks that run on a worker thread of the
\* runtime; the orchestrator spawns one task per part unconditionally, so
\* that once its first loop has ended every part 1..P has its task and up to
\* P tasks are alive at once.
C11_WCapsWorkerThreadsOnly ==
    prog = "par" =>
        /\ Cardinality({ p \in 1 .. MaxParts : task[p] = "running" }) <= num_threads
        /\ Cardinality(AliveTasks) <= num_parts
        /\ pc \in {"parts", "uploading", "completing"} =>
              \A p \in 1 .. num_parts : task[p] # "none"

\* 3 parts on 2 workers: all three tasks are alive, two of them on a worker
C11_Witness ==
    /\ prog = "par"
    /\ ValidPartition
    /\ num_parts = 3
    /\ num_threads = 2
    /\ Cardinality(AliveTasks) = 3
    /\ task[1] = "running"
    /\ task[2] = "running"
    /\ task[3] = "queued"

\* ---- C12 ----

\* the task of part p has ended: the least that "the worker has reported"
\* can mean
TaskEnded(p) == task[p] \in {"future", "panicked"}

\* C12: upload_multipart_parallel neither calls complete-upload nor returns
\* a part failure before every one of the P dispatched workers has reported.
C12_JoinBarrier ==
    (prog = "par" /\ ValidPartition) =>
        /\ CountOp(calls, "complete") > 0 => \A p \in 1 .. num_parts : TaskEnded(p)
        /\ (pc = "returned" /\ result.kind = "StoreError" /\ result.part # NoPart) =>
              \A p \in 1 .. num_parts : TaskEnded(p)

\* ---- C13 ----

\* C13: for L > 0 and 1 <= P <= L every part but the last is uploaded with
\* length floor(L / P), the last with floor(L / P) + (L mod P), and no part
\* with length 0.
C13_PartLengths ==
    (Multipart /\ ValidPartition) =>
        \A j \in 1 .. Len(UploadCalls) :
            /\ UploadCalls[j].content_length =
                  IF UploadCalls[j].part_number < num_parts
                  THEN len \div num_parts
                  ELSE (len \div num_parts) + (len % num_parts)
            /\ UploadCalls[j].content_length > 0
            /\ len = num_parts => UploadCalls[j].content_length = 1

\* all 3 parts of a 5-byte source were sent by the task-based orchestrator:
\* the last part carries the remainder of 2
C13_Witness ==
    /\ prog = "par"
    /\ len = 5
    /\ num_parts = 3
    /\ Len(UploadCalls) = 3
    /\ UploadCalls[3].content_length = 3

\* ---- C14 ----

\* the open file whose seek cursor the reader of part p uses: try_clone
\* duplicates the descriptor of the one `file` of upload_multipart, and the
\* duplicates share its cursor; upload_part opens the file anew for each part
HandleOf(p) == IF prog = "seq" THEN 0 ELSE p

\* the body of part p is being read: its store call is in flight
Live(p) == upload[p] = "inflight"

\* C14: a seek performed for a part never moves the cursor of a reader whose
\* body has not been fully read: when the reader of part q is positioned, no
\* live reader of another part uses the same open file.
C14_SeekLeavesLiveReadersAlone ==
    [][ \A q \in 1 .. MaxParts :
            (upload[q] = "none" /\ upload'[q] = "inflight") =>
                \A p \in (1 .. MaxParts) \ {q} :
                    Live(p) => HandleOf(p) # HandleOf(q) ]_vars

\* upload_multipart has positioned the reader of part 2 on the shared file,
\* after part 1 was read to its end
C14_Witness ==
    /\ prog = "seq"
    /\ ValidPartition
    /\ upload[1] = "ok"
    /\ Live(2)
    /\ HandleOf(1) = HandleOf(2)

\* ---- C15 ----

\* C15: when a part upload fails, the failure returned to the caller is the
\* failure of a part that actually failed, and of the first one to fail: all
\* parts before it were accepted and no part after it was tried.
C15_FirstFailureReturned ==
    Multipart =>
        /\ \A p \in 1 .. MaxParts :
              upload[p] = "err" =>
                  /\ pc = "returned"
                  /\ result = [kind |-> "StoreError", part |-> p]
        /\ (pc = "returned" /\ result.part # NoPart) =>
              /\ ~Accepted(result.part)
              /\ \A q \in 1 .. MaxParts :
                    /\ q < result.part => Accepted(q)
                    /\ q > result.part => upload[q] = "none"

\* of 3 parts only part 2 failed, and upload_multipart returned its error
C15_Witness ==
    /\ prog = "seq"
    /\ ValidPartition
    /\ num_parts = 3
    /\ upload = << "ok", "err", "none" >>
    /\ pc = "returned"
    /\ result = [kind |-> "StoreError", part |-> 2]

\* ---- C16 ----

\* C16: when every part succeeded and the store rejects complete-upload, the
\* orchestrator returns that failure and leaves the session open: no
\* abort-upload and no second complete-upload call, and no object appears.
C16_CompleteRejected ==
    (Multipart /\ completion = "err") =>
        /\ pc = "returned"
        /\ result = [kind |-> "StoreError", part |-> NoPart]
        /\ \A p \in 1 .. num_parts : Accepted(p)
        /\ CountOp(calls, "abort") = 0
        /\ CountOp(calls, "complete") = 1
        /\ calls[Len(calls)].op = "complete"
        /\ ~committed

\* the task-based orchestrator had 2 parts accepted and complete rejected
C16_Witness ==
    /\ prog = "par"
    /\ ValidPartition
    /\ num_parts = 2
    /\ completion = "err"
    /\ pc = "returned"

\* ---- C17 ----

\* a store call that carries a body
HasBody(c) == c.op \in {"upload_part", "put_object"}

\* C17: for every store call that carries a body the declared content_length
\* is the number of bytes the range reader yields, the range lying within
\* the source (multipart uploads of a valid partition; upload-file-chunk
\* asked for the whole file, <chunk size> 0, from a start offset inside it).
C17_ContentLengthIsBodyLength ==
    ((Multipart /\ ValidPartition)
        \/ (prog = "chunk" /\ chunk_size = 0 /\ start_offset <= len)) =>
        \A k \in 1 .. Len(calls) :
            HasBody(calls[k]) =>
                /\ calls[k].content_length = Len(calls[k].body)
                /\ calls[k].offset + calls[k].content_length <= len

\* ---- C18 ----

RECURSIVE SumSizes(_, _, _)
\* the lengths of the parts with index below k, summed
SumSizes(k, l, n) ==
    IF k = 0 THEN 0 ELSE SumSizes(k - 1, l, n) + PartSize(k - 1, l, n)

\* C18: for L > 0 and 1 <= P <= L the range of every upload-part call is the
\* one upload_multipart computes and the one upload_multipart_parallel
\* computes, and its offset is the running sum of the lengths of the parts
\* before it.
C18_SameRanges ==
    (Multipart /\ ValidPartition) =>
        \A j \in 1 .. Len(UploadCalls) :
            /\ UploadCalls[j].part_number = PartNumber(j - 1)
            /\ UploadCalls[j].content_length = PartSize(j - 1, len, num_parts)
            /\ UploadCalls[j].offset = SeqOffset(j - 1, len, num_parts)
            /\ UploadCalls[j].offset = ParOffset(j - 1, len, num_parts)
            /\ UploadCalls[j].offset = SumSizes(j - 1, len, num_parts)

\* ---- C19 ----

\* C19: once a part-upload failure has been observed no further upload-part
\* call is started: the failed call stays the last upload-part call issued,
\* no call is in flight and no later part has one; in the task-based
\* orchestrator the futures built by the tasks of later parts are never run.
C19_NoUploadAfterFailure ==
    \A p \in 1 .. MaxParts :
        (Multipart /\ upload[p] = "err") =>
            /\ UploadCalls[Len(UploadCalls)].part_number = p
            /\ Len(UploadCalls) = p
            /\ \A q \in 1 .. MaxParts :
                  /\ upload[q] # "inflight"
                  /\ q > p => upload[q] = "none"

\* part 1 of 3 failed in the task-based orchestrator; the tasks of parts 2
\* and 3 have ended with their futures built, and neither was uploaded
C19_Witness ==
    /\ prog = "par"
    /\ ValidPartition
    /\ num_parts = 3
    /\ upload = << "err", "none", "none" >>
    /\ task = << "future", "future", "future" >>
    /\ pc = "returned"

====
